---- MODULE Spec2Model ----
(***************************************************************************)
(* Model of biokit/converters/base.py: the metaclass _ConvMeta, which      *)
(* validates and normalises the class attributes input_ext / output_ext    *)
(* of every converter class at class-definition time, and the base class   *)
(* ConvBase.                                                               *)
(*                                                                         *)
(* A Python str is modelled as the sequence of its characters, so that     *)
(* startswith('.') and '.' + ext are computed, not assumed.  A class       *)
(* statement is modelled as Python runs it: the class body fills the       *)
(* namespace statement by statement, then the metaclass is called          *)
(* (ABCMeta.__new__, then _ConvMeta.__init__ as one step).                 *)
(***************************************************************************)
EXTENDS Integers, Sequences, FiniteSets, TLC

\* Largest number of elements of a declared list / tuple / set.
MaxElems == 2

----------------------------------------------------------------------------
(* Python values that a class body can bind to input_ext / output_ext.     *)

\* A value: kind is the Python type, s the characters of a str, elems the
\* elements of a list / tuple / set in iteration order.
Value(k, str, es) == [kind |-> k, s |-> str, elems |-> es]

\* An element of a collection: a str (t = "str") or an int (t = "int").
Elem(t, str) == [t |-> t, s |-> str]

PyStr(str)  == Value("str", str, <<>>)
PyNone      == Value("NoneType", <<>>, <<>>)
PyInt       == Value("int", <<>>, <<>>)
\* "the attribute is not bound in the class body"
Absent      == Value("absent", <<>>, <<>>)

\* The strings a body declares as a single extension.
Strs == { <<>>, <<".">>, <<"f", "a">>, <<".", "f", "a">> }

\* The elements a body puts in a collection: 'fa', '.fa' and the int 1.
Elems == { Elem("str", <<"f", "a">>), Elem("str", <<".", "f", "a">>),
           Elem("int", <<>>) }

SeqsUpTo(S, n) == UNION { [1..k -> S] : k \in 0..n }

IsInjective(f) == \A i, j \in DOMAIN f : f[i] = f[j] => i = j

\* list and tuple: any sequence; set: distinct elements, in the order in which
\* iterating the set yields them.
Collections ==
    { Value(k, <<>>, es) : k \in {"list", "tuple"}, es \in SeqsUpTo(Elems, MaxElems) }
    \cup { Value("set", <<>>, es) : es \in { f \in SeqsUpTo(Elems, MaxElems) : IsInjective(f) } }

\* Everything a class body may assign to input_ext or output_ext.
Declarable == { PyStr(str) : str \in Strs } \cup Collections \cup {PyNone, PyInt}

Roles == {"input", "output"}

ClassNames == {"ConvBase", "Fasta_2_Fasta"}

\* infile / outfile handed to a converter instance.
Paths == {"seq.fa", "notes"}

----------------------------------------------------------------------------
(* str methods                                                             *)

\* ext.startswith('.')
startswith_dot(str) == Len(str) > 0 /\ str[1] = "."

\* add_dot without its test: the dot is prefixed even to a dotted extension.
add_dot_always(str) == <<".">> \o str

\* if not ext.startswith('.'): ext = '.' + ext
add_dot(str) == IF startswith_dot(str) THEN str ELSE <<".">> \o str

\* What `for x in v` yields: the one-character strings of a str, the elements
\* of a list / tuple / set.
iter(v) ==
    IF v.kind = "str"
    THEN [i \in 1..Len(v.s) |-> Elem("str", <<v.s[i]>>)]
    ELSE v.elems

----------------------------------------------------------------------------
(* check_ext: the outcome of one call.  exc is the exception raised ("none"*)
(* when the call returns True), attr the attribute the error message       *)
(* names, set the value given to setattr (Absent when setattr is not       *)
(* reached).                                                               *)

Returned(v)    == [exc |-> "none", attr |-> "none", set |-> v]
Raised(e, a)   == [exc |-> e, attr |-> a, set |-> Absent]

\* check_ext whose last branch only prints its warning and does not raise.
check_ext_warn_only(ext, io_name, input_ext) ==
    IF ext.kind = "str"
    THEN Returned(Value("tuple", <<>>, << Elem("str", add_dot(ext.s)) >>))
    ELSE IF ext.kind \in {"list", "tuple", "set"}
    THEN IF ~ \A i \in DOMAIN iter(input_ext) : iter(input_ext)[i].t = "str"
         THEN Raised("InvalidConverterError", io_name \o "_ext")
         ELSE IF ~ \A i \in DOMAIN iter(input_ext) : startswith_dot(iter(input_ext)[i].s)
              THEN IF \E i \in DOMAIN ext.elems : ext.elems[i].t # "str"
                   THEN Raised("AttributeError", "none")
                   ELSE Returned(Value("list", <<>>,
                            [i \in DOMAIN ext.elems |->
                                Elem("str", add_dot(ext.elems[i].s))]))
              ELSE Raised("UnboundLocalError", "none")
    ELSE Returned(ext)

\* `input_ext` is the local of _ConvMeta.__init__ that check_ext reads as a
\* free variable: the value getattr(cls, 'input_ext') returned, before any
\* setattr.
check_ext(ext, io_name, input_ext) ==
    IF ext.kind = "str"
    THEN Returned(Value("tuple", <<>>, << Elem("str", add_dot(ext.s)) >>))
    ELSE IF ext.kind \in {"list", "tuple", "set"}
    THEN IF ~ \A i \in DOMAIN iter(input_ext) : iter(input_ext)[i].t = "str"
         THEN Raised("InvalidConverterError", io_name \o "_ext")
         ELSE IF ~ \A i \in DOMAIN iter(input_ext) : startswith_dot(iter(input_ext)[i].s)
              THEN IF \E i \in DOMAIN ext.elems : ext.elems[i].t # "str"
                   \* one_ext.startswith on an int
                   THEN Raised("AttributeError", "none")
                   ELSE Returned(Value("list", <<>>,
                            [i \in DOMAIN ext.elems |->
                                Elem("str", add_dot(ext.elems[i].s))]))
              \* all_ext is read before it was ever assigned
              ELSE Raised("UnboundLocalError", "none")
    ELSE Raised("InvalidConverterError", io_name \o "_ext")

----------------------------------------------------------------------------
(* State                                                                   *)

VARIABLES
    pc,         \* "unloaded": base.py not imported; "body": a class body is
                \* running; "done": the class statement has ended
    name,       \* cls.__name__ of the class statement
    bases,      \* "object" for ConvBase itself, else the class extended
    seen,       \* what getattr(cls, 'input_ext' / 'output_ext') returns when
                \* the metaclass runs: the body's binding, else the inherited one
    own,        \* the attribute names bound in the class body
    call,       \* __call__ as getattr sees it: "abstract" or "concrete"
    cls,        \* the class object's input_ext / output_ext and whether
                \* __abstractmethods__ is non-empty, once the metaclass has run
    calls,      \* the io_name of every check_ext call made, in order
    exc,        \* the exception that left the class statement ("none" if none)
    errAttr,    \* the attribute named by the exception's message
    created,    \* the class statement bound a class
    inst        \* the last instantiation: the arguments given, the outcome, and
                \* the attributes of the instance

vars == <<pc, name, bases, seen, own, call, cls, calls, exc, errAttr, created, inst>>

NoInstance == [res |-> "none", args |-> <<"", "">>, infile |-> "", outfile |-> ""]

NoClass == [input_ext |-> Absent, output_ext |-> Absent, abstract |-> FALSE]

Init ==
    /\ pc = "unloaded"
    /\ name = ""
    /\ bases = ""
    /\ seen = [input_ext |-> Absent, output_ext |-> Absent]
    /\ own = {}
    /\ call = "absent"
    /\ cls = NoClass
    /\ calls = <<>>
    /\ exc = "none"
    /\ errAttr = "none"
    /\ created = FALSE
    /\ inst = NoInstance

----------------------------------------------------------------------------
(* The metaclass                                                           *)

\* abc.ABCMeta.__new__: __abstractmethods__ is non-empty iff the __call__ the
\* class ends up with is the abstract one.
ABCMeta___new__(c) == c = "abstract"

\* _ConvMeta.__init__ with the two checks in the other order.
ConvMeta___init___output_first(n, in, out) ==
    IF n = "ConvBase"
    THEN [calls |-> <<>>, exc |-> "none", attr |-> "none",
          input_ext |-> in, output_ext |-> out]
    ELSE LET r2 == check_ext(out, "output", in) IN
         IF r2.exc # "none"
         THEN [calls |-> <<"output">>, exc |-> r2.exc, attr |-> r2.attr,
               input_ext |-> in, output_ext |-> out]
         ELSE LET r1 == check_ext(in, "input", in) IN
              [calls |-> <<"output", "input">>, exc |-> r1.exc, attr |-> r1.attr,
               input_ext |-> IF r1.exc = "none" THEN r1.set ELSE in,
               output_ext |-> r2.set]

\* _ConvMeta.__init__ without the test on cls.__name__: every class is checked.
ConvMeta___init___no_exemption(n, in, out) ==
    LET r1 == check_ext(in, "input", in) IN
    IF r1.exc # "none"
    THEN [calls |-> <<"input">>, exc |-> r1.exc, attr |-> r1.attr,
          input_ext |-> in, output_ext |-> out]
    ELSE LET r2 == check_ext(out, "output", in) IN
         [calls |-> <<"input", "output">>, exc |-> r2.exc, attr |-> r2.attr,
          input_ext |-> r1.set,
          output_ext |-> IF r2.exc = "none" THEN r2.set ELSE out]

\* _ConvMeta.__init__(cls, name, bases, attrs): the check_ext calls made, the
\* exception raised, and the attributes left on cls.
\* check_ext returns True or raises, so `return None` is never taken.
ConvMeta___init__(n, in, out) ==
    IF n = "ConvBase"
    THEN [calls |-> <<>>, exc |-> "none", attr |-> "none",
          input_ext |-> in, output_ext |-> out]
    ELSE LET r1 == check_ext(in, "input", in) IN
         IF r1.exc # "none"
         THEN [calls |-> <<"input">>, exc |-> r1.exc, attr |-> r1.attr,
               input_ext |-> in, output_ext |-> out]
         ELSE LET r2 == check_ext(out, "output", in) IN
              [calls |-> <<"input", "output">>, exc |-> r2.exc, attr |-> r2.attr,
               input_ext |-> r1.set,
               output_ext |-> IF r2.exc = "none" THEN r2.set ELSE out]

\* The end of a class statement: type(name, bases, attrs) is called, and the
\* name is bound only if no exception leaves the call.
EndOfClassStatement(n, in, out, c) ==
    LET r == ConvMeta___init__(n, in, out) IN
    /\ pc' = "done"
    /\ cls' = [input_ext |-> r.input_ext, output_ext |-> r.output_ext,
               abstract |-> ABCMeta___new__(c)]
    /\ calls' = r.calls
    /\ exc' = r.exc
    /\ errAttr' = r.attr
    /\ created' = (r.exc = "none")

----------------------------------------------------------------------------
(* Actions                                                                 *)

\* import of base.py: the statement `class ConvBase(metaclass=_ConvMeta)`,
\* whose body binds input_ext = None, output_ext = None and the abstract
\* __call__.
ImportModule ==
    /\ pc = "unloaded"
    /\ name' = "ConvBase"
    /\ bases' = "object"
    /\ seen' = [input_ext |-> PyNone, output_ext |-> PyNone]
    /\ own' = {"input_ext", "output_ext", "__call__"}
    /\ call' = "abstract"
    /\ EndOfClassStatement("ConvBase", PyNone, PyNone, "abstract")
    /\ UNCHANGED inst

\* `class <n>(ConvBase):` or `class <n>(<the class defined last>):` begins.
\* Nothing is bound yet, so every attribute is the inherited one.
ClassStatement(n, parent) ==
    /\ pc = "done"
    /\ parent \in {"ConvBase"} \cup (IF created /\ bases # "object" THEN {"variant"} ELSE {})
    /\ pc' = "body"
    /\ name' = n
    /\ bases' = parent
    /\ seen' = IF parent = "ConvBase"
               THEN [input_ext |-> PyNone, output_ext |-> PyNone]
               ELSE [input_ext |-> cls.input_ext, output_ext |-> cls.output_ext]
    /\ own' = {}
    /\ call' = IF parent = "ConvBase" THEN "abstract"
               ELSE IF cls.abstract THEN "abstract" ELSE "concrete"
    /\ cls' = NoClass
    /\ calls' = <<>>
    /\ exc' = "none"
    /\ errAttr' = "none"
    /\ created' = FALSE
    /\ inst' = NoInstance

\* `input_ext = v` in the class body.
BodyAssignInput(v) ==
    /\ pc = "body"
    /\ own = {}
    /\ seen' = [seen EXCEPT !.input_ext = v]
    /\ own' = own \cup {"input_ext"}
    /\ UNCHANGED <<pc, name, bases, call, cls, calls, exc, errAttr, created, inst>>

\* `output_ext = v` in the class body.
BodyAssignOutput(v) ==
    /\ pc = "body"
    /\ own \subseteq {"input_ext"}
    /\ seen' = [seen EXCEPT !.output_ext = v]
    /\ own' = own \cup {"output_ext"}
    /\ UNCHANGED <<pc, name, bases, call, cls, calls, exc, errAttr, created, inst>>

\* `def __call__(self, *args, **kwargs): do conversion` in the class body.
BodyDefCall ==
    /\ pc = "body"
    /\ "__call__" \notin own
    /\ call' = "concrete"
    /\ own' = own \cup {"__call__"}
    /\ UNCHANGED <<pc, name, bases, seen, cls, calls, exc, errAttr, created, inst>>

\* The class body has ended: the metaclass is called.
MetaclassCall ==
    /\ pc = "body"
    /\ EndOfClassStatement(name, seen.input_ext, seen.output_ext, call)
    /\ UNCHANGED <<name, bases, seen, own, call, inst>>

\* ConvBase.__init__ with the two assignments crossed.
ConvBase___init___crossed(infile, outfile) ==
    IF cls.abstract
    THEN [res |-> "TypeError", args |-> <<infile, outfile>>,
          infile |-> "", outfile |-> ""]
    ELSE [res |-> "ok", args |-> <<infile, outfile>>,
          infile |-> outfile, outfile |-> infile]

\* ConvBase.__init__(self, infile, outfile) on the class defined last.
\* object.__new__ refuses a class whose __abstractmethods__ is non-empty.
ConvBase___init__(infile, outfile) ==
    IF cls.abstract
    THEN [res |-> "TypeError", args |-> <<infile, outfile>>,
          infile |-> "", outfile |-> ""]
    ELSE [res |-> "ok", args |-> <<infile, outfile>>,
          infile |-> infile, outfile |-> outfile]

Instantiate(infile, outfile) ==
    /\ pc = "done"
    /\ created
    /\ inst' = ConvBase___init__(infile, outfile)
    /\ UNCHANGED <<pc, name, bases, seen, own, call, cls, calls, exc, errAttr, created>>

Next ==
    \/ ImportModule
    \/ \E n \in ClassNames, parent \in {"ConvBase", "variant"} : ClassStatement(n, parent)
    \/ \E v \in Declarable : BodyAssignInput(v)
    \/ \E v \in Declarable : BodyAssignOutput(v)
    \/ BodyDefCall
    \/ MetaclassCall
    \/ \E infile \in Paths, outfile \in Paths : Instantiate(infile, outfile)

Spec == Init /\ [][Next]_vars

----------------------------------------------------------------------------
(* Vocabulary of the properties                                            *)

Attr(rec, r) == IF r = "input" THEN rec.input_ext ELSE rec.output_ext

\* A class statement has ended.
Done == pc = "done"

\* check_ext was called for role r / raised / returned True.
CheckRan(r)    == \E i \in DOMAIN calls : calls[i] = r
CheckFailed(r) == calls # <<>> /\ calls[Len(calls)] = r /\ exc # "none"
CheckPassed(r) == CheckRan(r) /\ ~CheckFailed(r)

IsCollection(v) == v.kind \in {"list", "tuple", "set"}
AllStr(v)       == \A i \in DOMAIN v.elems : v.elems[i].t = "str"
Dotted(str)     == str # <<>> /\ Head(str) = "."
AllDotted(v)    == \A i \in DOMAIN v.elems : v.elems[i].t = "str" /\ Dotted(v.elems[i].s)

\* '.' + s unless s already begins with '.'
Normal(str) == IF Dotted(str) THEN str ELSE <<".">> \o str

\* A non-empty sequence of strings that each begin with '.'.
WellFormed(v) == v.kind \in {"list", "tuple"} /\ v.elems # <<>> /\ AllDotted(v)

InvalidNaming(r) ==
    /\ exc = "InvalidConverterError"
    /\ errAttr = (IF r = "input" THEN "input_ext" ELSE "output_ext")
    /\ ~created

----------------------------------------------------------------------------
(* C1 *)

\* C1: after every successful class statement of a converter other than the
\* base, input_ext and output_ext are both non-empty sequences of strings
\* that begin with '.'.  (Stated for the classes the metaclass validates.)
C1_ExtensionsWellFormed ==
    (Done /\ created /\ name # "ConvBase")
        => WellFormed(cls.input_ext) /\ WellFormed(cls.output_ext)

----------------------------------------------------------------------------
(* C2 *)

\* C2: for either role, a declared list or tuple of strings passes the check
\* and is stored element by element, in order, each element prefixed with '.'
\* unless it already begins with one.
C2_CollectionNormalized ==
    \A r \in Roles :
        (Done /\ CheckRan(r) /\ Attr(seen, r).kind \in {"list", "tuple"}
              /\ AllStr(Attr(seen, r)))
            => /\ CheckPassed(r)
               /\ Len(Attr(cls, r).elems) = Len(Attr(seen, r).elems)
               /\ \A i \in DOMAIN Attr(seen, r).elems :
                      Attr(cls, r).elems[i] = Elem("str", Normal(Attr(seen, r).elems[i].s))

----------------------------------------------------------------------------
(* C3 *)

\* C3: for either role, when the value checked is a single string s, the check
\* passes and the attribute becomes the one-element tuple holding s if s
\* begins with '.', and '.' + s otherwise.
C3_SingleString ==
    \A r \in Roles :
        (Done /\ CheckRan(r) /\ Attr(seen, r).kind = "str")
            => /\ CheckPassed(r)
               /\ Attr(cls, r) = Value("tuple", <<>>,
                                       << Elem("str", Normal(Attr(seen, r).s)) >>)

\* The output role got an undotted string and the class was created.
C3_Witness ==
    /\ Done /\ created /\ name # "ConvBase"
    /\ seen.output_ext = PyStr(<<"f", "a">>)
    /\ seen.input_ext = PyStr(<<".", "f", "a">>)
    /\ cls.output_ext.elems = << Elem("str", <<".", "f", "a">>) >>

----------------------------------------------------------------------------
(* C4 *)

\* C4: for either role, a list, tuple or set with an element that is not a
\* string makes the class statement fail with InvalidConverterError naming
\* that attribute, and no class is created.
C4_NonStringElementRejected ==
    \A r \in Roles :
        (Done /\ CheckRan(r) /\ IsCollection(Attr(seen, r)) /\ ~AllStr(Attr(seen, r)))
            => InvalidNaming(r)

----------------------------------------------------------------------------
(* C5 *)

----------------------------------------------------------------------------
(* C6 *)

\* C6: a class statement either succeeds or fails with InvalidConverterError.
C6_OnlyInvalidConverterError ==
    Done => exc \in {"none", "InvalidConverterError"}

----------------------------------------------------------------------------
(* C7 *)

\* C7: checking a sequence whose elements are all strings beginning with '.'
\* (such as one stored by an earlier check and inherited) passes and leaves
\* the attribute equal to that value.
C7_IdempotentOnNormalized ==
    \A r \in Roles :
        (Done /\ CheckRan(r) /\ WellFormed(Attr(seen, r)))
            => CheckPassed(r) /\ Attr(cls, r) = Attr(seen, r)

----------------------------------------------------------------------------
(* C8 *)

----------------------------------------------------------------------------
(* C9 *)

----------------------------------------------------------------------------
(* C10 *)

\* C10: on a class that was created, instantiation raises iff neither the
\* class nor an ancestor below the base defines __call__; otherwise it
\* succeeds for any infile / outfile, stores them as given, and leaves the
\* class's input_ext / output_ext as they were.
C10_Instantiation ==
    /\ [](inst.res # "none" =>
            /\ Done /\ created
            /\ inst.res = "TypeError" <=> call # "concrete"
            /\ inst.res = "ok" =>
                  (inst.infile = inst.args[1] /\ inst.outfile = inst.args[2]))
    /\ [][(pc = "done" /\ pc' = "done") => cls' = cls]_vars

\* An instance of a grandchild that inherits its __call__, made with paths
\* that carry none of the class's extensions.
C10_Witness ==
    /\ inst.res = "ok"
    /\ bases = "variant" /\ "__call__" \notin own
    /\ inst.infile = "notes" /\ inst.outfile = "seq.fa"
    /\ WellFormed(cls.input_ext)

====
